---- MODULE Spec2Model ----
(***************************************************************************)
(* Model of src/MyPackage/MyGui.py: the Tk form MyGUIClass, its handlers   *)
(* validation, get_folder_path and quit_script, and the event loop that    *)
(* dispatches them one at a time.                                          *)
(*                                                                         *)
(* The text of the two IP entries is a sequence of one-character strings,  *)
(* so that ipaddress.ip_address is modelled by parsing it.  The text of    *)
(* the other variables is only tested for emptiness by the code and is a   *)
(* plain string.                                                           *)
(***************************************************************************)
EXTENDS Integers, Sequences, FiniteSets, TLC

VARIABLES SiteName_var, Username_var, password_var, answer_redo_var,
          answer_password_var, IP_Address1_var, IP_Address2_var,
          FolderPath_var, JumpServer_var, Debugging_var,
          folder_selected, widget_state, master, pc, shown, failed

\* SiteName_var .. Debugging_var  the StringVars of the form
\* folder_selected   what filedialog.askdirectory() returned last
\* widget_state      the state option of each widget
\* master            the root window: "open" or "destroyed"
\* pc                "mainloop" while root.mainloop() runs, "done" once it
\*                   has returned and the script has ended, "exited" after
\*                   sys.exit()
\* shown             the message dialogs of the handler that ran last; they
\*                   are modal and acknowledged before the next event
\* failed            how many validations have shown an error, counted up
\*                   to MaxFailed

form == <<SiteName_var, Username_var, password_var, answer_redo_var,
          answer_password_var, IP_Address1_var, IP_Address2_var,
          FolderPath_var, JumpServer_var, Debugging_var>>

vars == <<SiteName_var, Username_var, password_var, answer_redo_var,
          answer_password_var, IP_Address1_var, IP_Address2_var,
          FolderPath_var, JumpServer_var, Debugging_var,
          folder_selected, widget_state, master, pc, shown, failed>>

(***************************************************************************)
(* Bounds of the model.                                                    *)
(***************************************************************************)
\* The longest text typed into an IP entry.
MaxIPLen == 15
\* The failed validations that are counted; further ones leave the count.
MaxFailed == 2

(***************************************************************************)
(* ipaddress.ip_address on text over digits, a-f, "." and ":".             *)
(***************************************************************************)
Digits == {"0", "1", "2", "3", "4", "5", "6", "7", "8", "9"}

HexDigits == Digits \cup {"a", "b", "c", "d", "e", "f"}

DigitVal(c) ==
    CASE c = "0" -> 0 [] c = "1" -> 1 [] c = "2" -> 2 [] c = "3" -> 3
      [] c = "4" -> 4 [] c = "5" -> 5 [] c = "6" -> 6 [] c = "7" -> 7
      [] c = "8" -> 8 [] c = "9" -> 9

\* str.split(sep): the pieces between the occurrences of sep.
RECURSIVE split(_, _)
split(s, sep) ==
    IF \A i \in 1..Len(s) : s[i] # sep
    THEN <<s>>
    ELSE LET i == CHOOSE k \in 1..Len(s) :
                      s[k] = sep /\ \A j \in 1..(k - 1) : s[j] # sep
         IN  <<SubSeq(s, 1, i - 1)>> \o split(SubSeq(s, i + 1, Len(s)), sep)

\* int(octet_str, 10) of a string of digits.
RECURSIVE int(_)
int(s) ==
    IF s = <<>> THEN 0
    ELSE 10 * int(SubSeq(s, 1, Len(s) - 1)) + DigitVal(s[Len(s)])

\* Mutant of parse_octet_ok: the octet's range is not checked.
parse_octet_ok_no_range(o) ==
    /\ o # <<>>
    /\ \A i \in 1..Len(o) : o[i] \in Digits
    /\ Len(o) <= 3
    /\ ~(o # <<"0">> /\ o[1] = "0")

\* IPv4Address._parse_octet returns instead of raising.
parse_octet_ok(o) ==
    /\ o # <<>>
    /\ \A i \in 1..Len(o) : o[i] \in Digits
    /\ Len(o) <= 3
    /\ ~(o # <<"0">> /\ o[1] = "0")
    /\ int(o) <= 255

\* IPv4Address(s) returns instead of raising AddressValueError.
IsIPv4(s) ==
    /\ s # <<>>
    /\ LET octets == split(s, ".")
       IN  /\ Len(octets) = 4
           /\ \A i \in 1..4 : parse_octet_ok(octets[i])

\* IPv6Address._parse_hextet returns instead of raising.
parse_hextet_ok(h) ==
    /\ h # <<>>
    /\ \A i \in 1..Len(h) : h[i] \in HexDigits
    /\ Len(h) <= 4

\* IPv6Address(s) returns instead of raising AddressValueError.  An IPv4
\* suffix, once parsed, is replaced by two hextets; they are always
\* well-formed, and stand here as "0".
IsIPv6(s) ==
    /\ s # <<>>
    /\ LET parts0 == split(s, ":")
           last   == parts0[Len(parts0)]
           hasV4  == \E i \in 1..Len(last) : last[i] = "."
           parts  == IF hasV4
                     THEN SubSeq(parts0, 1, Len(parts0) - 1) \o <<<<"0">>, <<"0">>>>
                     ELSE parts0
           n      == Len(parts)
           skips  == {i \in 2..(n - 1) : parts[i] = <<>>}
       IN  /\ Len(parts0) >= 3
           /\ hasV4 => IsIPv4(last)
           /\ n <= 9
           /\ Cardinality(skips) <= 1
           /\ IF skips # {}
              THEN LET k  == CHOOSE i \in skips : TRUE
                       hi == IF parts[1] = <<>> THEN k - 2 ELSE k - 1
                       lo == IF parts[n] = <<>> THEN n - k - 1 ELSE n - k
                   IN  /\ parts[1] = <<>> => hi = 0
                       /\ parts[n] = <<>> => lo = 0
                       /\ 8 - (hi + lo) >= 1
                       /\ \A i \in 1..hi : parse_hextet_ok(parts[i])
                       /\ \A i \in (n - lo + 1)..n : parse_hextet_ok(parts[i])
              ELSE /\ n = 8
                   /\ \A i \in 1..8 : parse_hextet_ok(parts[i])

\* ipaddress.ip_address(s): the address object built, or ValueError raised.
ip_address_parse(s) ==
    IF IsIPv4(s) THEN "IPv4Address"
    ELSE IF IsIPv6(s) THEN "IPv6Address"
    ELSE "ValueError"

\* bool(x) of what ip_address returns: the address classes define neither
\* __bool__ nor __len__, so every address object is true.
truth(x) == x \in {"IPv4Address", "IPv6Address"}

(***************************************************************************)
(* What the operator may type, select or pick.                             *)
(***************************************************************************)
SiteNames == {"", "HQ"}

Usernames == {"", "admin"}

Passwords == {"", "x"}

AnswerPasswords == {"", "y"}

IPTexts ==
    { <<>>,
      <<"1","0",".","0",".","0",".","1">>,
      <<":",":","1">>,
      <<"9","9","9",".","9","9","9",".","9","9","9",".","9","9","9">>,
      <<"1","0",".","0",".","0">>,
      <<":",":","f","f","f","f",":","1",".","2",".","3",".","4">>,
      <<"1",":","2",":","3",":","4",":","5",":","6",":","7",":","8",":">> }

IPInputs == {s \in IPTexts : Len(s) <= MaxIPLen}

\* ip_address on the texts that can be typed, parsed once each.
ip_address_of == [s \in IPInputs |-> ip_address_parse(s)]

ip_address(s) == ip_address_of[s]

\* filedialog.askdirectory(): a directory, or "" when the dialog is cancelled.
Directories == {"/tmp/out", "/tmp/b"}

answer_redo_values == {"Yes", "No"}

JumpServer_values == {"MMFTH1V-MGMTS02", "AR31NOC", "None"}

Debugging_values == {"Off", "On"}

Widgets == {"Site_Name_entry", "Username_entry", "password_entry", "answer_redo",
            "answer_password_entry", "IP_Address1_entry", "IP_Address2_entry",
            "FolderPath_entry", "browse_button", "JumpServer", "Debugging",
            "submit_button", "cancel_button"}

\* The widgets validation disables on success.
Locked == Widgets \ {"cancel_button"}

(***************************************************************************)
(* The dialogs of validation.                                              *)
(***************************************************************************)
SiteNameEmpty == "Site Name field is empty"

UsernameEmpty == "Username field is empty"

PasswordEmpty == "Password field is empty"

AnswerPasswordEmpty == "Answer Password field is empty"

CoreSwitch1Invalid == "Core Switch 1 field is empty or IP is invalid"

CoreSwitch2Invalid == "Core Switch 1 IP is invalid"

FolderEmpty == "Results file location field is empty"

SomeIPInvalid == "One of the IP Addresses you provided is invalid"

Running == "Your script is running in the background"

showerror(m) == [kind |-> "error", message |-> m]

showinfo(m) == [kind |-> "info", message |-> m]

(***************************************************************************)
(* MyGUIClass.__init__ followed by root.mainloop().                        *)
(***************************************************************************)
Init ==
    /\ SiteName_var = ""
    /\ Username_var = ""
    /\ password_var = ""
    /\ answer_redo_var = "Yes"
    /\ answer_password_var = ""
    /\ IP_Address1_var = <<>>
    /\ IP_Address2_var = <<>>
    /\ FolderPath_var = ""
    /\ JumpServer_var = "MMFTH1V-MGMTS02"
    /\ Debugging_var = "Off"
    /\ folder_selected = ""
    /\ widget_state = [w \in Widgets |->
                         IF w \in {"answer_redo", "JumpServer", "Debugging"}
                         THEN "readonly"
                         ELSE IF w = "FolderPath_entry" THEN "disabled"
                         ELSE "normal"]
    /\ master = "open"
    /\ pc = "mainloop"
    /\ shown = <<>>
    /\ failed = 0

\* The event loop dispatches an event of widget w.
usable(w) == pc = "mainloop" /\ master = "open" /\ widget_state[w] # "disabled"

(***************************************************************************)
(* The operator's edits: an Entry or Combobox writes its textvariable.     *)
(***************************************************************************)
EditSiteName ==
    /\ usable("Site_Name_entry")
    /\ \E v \in SiteNames : SiteName_var' = v
    /\ shown' = <<>>
    /\ UNCHANGED <<Username_var, password_var, answer_redo_var, answer_password_var,
                   IP_Address1_var, IP_Address2_var, FolderPath_var, JumpServer_var,
                   Debugging_var, folder_selected, widget_state, master, pc, failed>>

EditUsername ==
    /\ usable("Username_entry")
    /\ \E v \in Usernames : Username_var' = v
    /\ shown' = <<>>
    /\ UNCHANGED <<SiteName_var, password_var, answer_redo_var, answer_password_var,
                   IP_Address1_var, IP_Address2_var, FolderPath_var, JumpServer_var,
                   Debugging_var, folder_selected, widget_state, master, pc, failed>>

EditPassword ==
    /\ usable("password_entry")
    /\ \E v \in Passwords : password_var' = v
    /\ shown' = <<>>
    /\ UNCHANGED <<SiteName_var, Username_var, answer_redo_var, answer_password_var,
                   IP_Address1_var, IP_Address2_var, FolderPath_var, JumpServer_var,
                   Debugging_var, folder_selected, widget_state, master, pc, failed>>

SelectAnswerRedo ==
    /\ usable("answer_redo")
    /\ \E v \in answer_redo_values : answer_redo_var' = v
    /\ shown' = <<>>
    /\ UNCHANGED <<SiteName_var, Username_var, password_var, answer_password_var,
                   IP_Address1_var, IP_Address2_var, FolderPath_var, JumpServer_var,
                   Debugging_var, folder_selected, widget_state, master, pc, failed>>

EditAnswerPassword ==
    /\ usable("answer_password_entry")
    /\ \E v \in AnswerPasswords : answer_password_var' = v
    /\ shown' = <<>>
    /\ UNCHANGED <<SiteName_var, Username_var, password_var, answer_redo_var,
                   IP_Address1_var, IP_Address2_var, FolderPath_var, JumpServer_var,
                   Debugging_var, folder_selected, widget_state, master, pc, failed>>

EditIPAddress1 ==
    /\ usable("IP_Address1_entry")
    /\ \E v \in IPInputs : IP_Address1_var' = v
    /\ shown' = <<>>
    /\ UNCHANGED <<SiteName_var, Username_var, password_var, answer_redo_var,
                   answer_password_var, IP_Address2_var, FolderPath_var, JumpServer_var,
                   Debugging_var, folder_selected, widget_state, master, pc, failed>>

EditIPAddress2 ==
    /\ usable("IP_Address2_entry")
    /\ \E v \in IPInputs : IP_Address2_var' = v
    /\ shown' = <<>>
    /\ UNCHANGED <<SiteName_var, Username_var, password_var, answer_redo_var,
                   answer_password_var, IP_Address1_var, FolderPath_var, JumpServer_var,
                   Debugging_var, folder_selected, widget_state, master, pc, failed>>

SelectJumpServer ==
    /\ usable("JumpServer")
    /\ \E v \in JumpServer_values : JumpServer_var' = v
    /\ shown' = <<>>
    /\ UNCHANGED <<SiteName_var, Username_var, password_var, answer_redo_var,
                   answer_password_var, IP_Address1_var, IP_Address2_var, FolderPath_var,
                   Debugging_var, folder_selected, widget_state, master, pc, failed>>

SelectDebugging ==
    /\ usable("Debugging")
    /\ \E v \in Debugging_values : Debugging_var' = v
    /\ shown' = <<>>
    /\ UNCHANGED <<SiteName_var, Username_var, password_var, answer_redo_var,
                   answer_password_var, IP_Address1_var, IP_Address2_var, FolderPath_var,
                   JumpServer_var, folder_selected, widget_state, master, pc, failed>>

\* Mutant of get_folder_path: a cancelled dialog keeps the folder shown.
get_folder_path_keep_on_cancel ==
    /\ usable("browse_button")
    /\ \E d \in Directories \cup {""} : folder_selected' = d
    /\ FolderPath_var' = IF folder_selected' = "" THEN FolderPath_var
                         ELSE folder_selected'
    /\ shown' = <<>>
    /\ UNCHANGED <<SiteName_var, Username_var, password_var, answer_redo_var,
                   answer_password_var, IP_Address1_var, IP_Address2_var,
                   JumpServer_var, Debugging_var, widget_state, master, pc, failed>>

(***************************************************************************)
(* get_folder_path: the Browse Folder button.                              *)
(***************************************************************************)
get_folder_path ==
    /\ usable("browse_button")
    /\ \E d \in Directories \cup {""} : folder_selected' = d
    /\ FolderPath_var' = folder_selected'
    /\ shown' = <<>>
    /\ UNCHANGED <<SiteName_var, Username_var, password_var, answer_redo_var,
                   answer_password_var, IP_Address1_var, IP_Address2_var,
                   JumpServer_var, Debugging_var, widget_state, master, pc, failed>>

\* Mutant of quit_script: the window is destroyed instead of the process
\* ended, so that mainloop returns as it does after a submission.
quit_script_destroy ==
    /\ usable("cancel_button")
    /\ master' = "destroyed"
    /\ pc' = "done"
    /\ shown' = <<>>
    /\ UNCHANGED <<form, folder_selected, widget_state, failed>>

(***************************************************************************)
(* quit_script: the Cancel button and WM_DELETE_WINDOW.  sys.exit() raises *)
(* SystemExit through the event loop and ends the process.                 *)
(***************************************************************************)
quit_script ==
    /\ usable("cancel_button")
    /\ pc' = "exited"
    /\ shown' = <<>>
    /\ UNCHANGED <<form, folder_selected, widget_state, master, failed>>

(***************************************************************************)
(* validation: the Submit button.                                          *)
(***************************************************************************)
\* Mutant of validation_branch: the results folder is not checked.
validation_branch_no_folder ==
    IF SiteName_var = "" THEN SiteNameEmpty
    ELSE IF Username_var = "" THEN UsernameEmpty
    ELSE IF password_var = "" THEN PasswordEmpty
    ELSE IF answer_redo_var = "Yes" /\ answer_password_var = ""
         THEN AnswerPasswordEmpty
    ELSE IF ip_address(IP_Address1_var) = "ValueError" THEN SomeIPInvalid
    ELSE IF ~truth(ip_address(IP_Address1_var)) THEN CoreSwitch1Invalid
    ELSE IF IP_Address2_var # <<>> /\ ip_address(IP_Address2_var) = "ValueError"
         THEN SomeIPInvalid
    ELSE IF IP_Address2_var # <<>> /\ ~truth(ip_address(IP_Address2_var))
         THEN CoreSwitch2Invalid
    ELSE "else"

\* Mutant of validation_branch: the answer password is required whatever
\* answer_redo_var holds.
validation_branch_always_answer ==
    IF SiteName_var = "" THEN SiteNameEmpty
    ELSE IF Username_var = "" THEN UsernameEmpty
    ELSE IF password_var = "" THEN PasswordEmpty
    ELSE IF answer_password_var = "" THEN AnswerPasswordEmpty
    ELSE IF ip_address(IP_Address1_var) = "ValueError" THEN SomeIPInvalid
    ELSE IF ~truth(ip_address(IP_Address1_var)) THEN CoreSwitch1Invalid
    ELSE IF IP_Address2_var # <<>> /\ ip_address(IP_Address2_var) = "ValueError"
         THEN SomeIPInvalid
    ELSE IF IP_Address2_var # <<>> /\ ~truth(ip_address(IP_Address2_var))
         THEN CoreSwitch2Invalid
    ELSE IF FolderPath_var = "" THEN FolderEmpty
    ELSE "else"

\* Mutant of validation_branch: the second address is parsed even when its
\* entry is empty.
validation_branch_ip2_unguarded ==
    IF SiteName_var = "" THEN SiteNameEmpty
    ELSE IF Username_var = "" THEN UsernameEmpty
    ELSE IF password_var = "" THEN PasswordEmpty
    ELSE IF answer_redo_var = "Yes" /\ answer_password_var = ""
         THEN AnswerPasswordEmpty
    ELSE IF ip_address(IP_Address1_var) = "ValueError" THEN SomeIPInvalid
    ELSE IF ~truth(ip_address(IP_Address1_var)) THEN CoreSwitch1Invalid
    ELSE IF ip_address(IP_Address2_var) = "ValueError" THEN SomeIPInvalid
    ELSE IF ~truth(ip_address(IP_Address2_var)) THEN CoreSwitch2Invalid
    ELSE IF FolderPath_var = "" THEN FolderEmpty
    ELSE "else"

\* The branch of the if/elif chain that runs: the message of its showerror,
\* SomeIPInvalid when a condition raises ValueError and the except clause
\* runs, "else" when every condition is false.
validation_branch ==
    IF SiteName_var = "" THEN SiteNameEmpty
    ELSE IF Username_var = "" THEN UsernameEmpty
    ELSE IF password_var = "" THEN PasswordEmpty
    ELSE IF answer_redo_var = "Yes" /\ answer_password_var = ""
         THEN AnswerPasswordEmpty
    ELSE IF ip_address(IP_Address1_var) = "ValueError" THEN SomeIPInvalid
    ELSE IF ~truth(ip_address(IP_Address1_var)) THEN CoreSwitch1Invalid
    ELSE IF IP_Address2_var # <<>> /\ ip_address(IP_Address2_var) = "ValueError"
         THEN SomeIPInvalid
    ELSE IF IP_Address2_var # <<>> /\ ~truth(ip_address(IP_Address2_var))
         THEN CoreSwitch2Invalid
    ELSE IF FolderPath_var = "" THEN FolderEmpty
    ELSE "else"

\* Mutant of validation_error: no except clause, so that the ValueError
\* leaves validation and no dialog is shown for it.
validation_error_uncaught ==
    /\ shown' = IF validation_branch = SomeIPInvalid THEN <<>>
                ELSE <<showerror(validation_branch)>>
    /\ failed' = IF failed < MaxFailed THEN failed + 1 ELSE failed
    /\ UNCHANGED <<form, folder_selected, widget_state, master, pc>>

\* A showerror branch, or the except clause: one error dialog, nothing else.
validation_error ==
    /\ shown' = <<showerror(validation_branch)>>
    /\ failed' = IF failed < MaxFailed THEN failed + 1 ELSE failed
    /\ UNCHANGED <<form, folder_selected, widget_state, master, pc>>

\* Mutant of validation_else: the entries are left enabled and the window
\* is not destroyed.
validation_else_no_destroy ==
    /\ widget_state' = [w \in Widgets |->
                          IF w = "submit_button" THEN "disabled" ELSE widget_state[w]]
    /\ shown' = <<showinfo(Running)>>
    /\ pc' = "done"
    /\ UNCHANGED <<form, folder_selected, master, failed>>

\* The else branch: every widget but the Cancel button is disabled, the
\* information dialog is shown, the root window is destroyed; mainloop
\* returns and the script ends with the variables as they are.
validation_else ==
    /\ widget_state' = [w \in Widgets |->
                          IF w \in Locked THEN "disabled" ELSE widget_state[w]]
    /\ shown' = <<showinfo(Running)>>
    /\ master' = "destroyed"
    /\ pc' = "done"
    /\ UNCHANGED <<form, folder_selected, failed>>

validation ==
    /\ usable("submit_button")
    /\ IF validation_branch = "else" THEN validation_else ELSE validation_error

Next ==
    \/ EditSiteName
    \/ EditUsername
    \/ EditPassword
    \/ SelectAnswerRedo
    \/ EditAnswerPassword
    \/ EditIPAddress1
    \/ EditIPAddress2
    \/ SelectJumpServer
    \/ SelectDebugging
    \/ get_folder_path
    \/ validation
    \/ quit_script

Spec == Init /\ [][Next]_vars

(***************************************************************************)
(* The specification's view of the program.  The rules of submit are       *)
(* stated here from the specification, with the IP literals of IPTexts     *)
(* listed one by one, and not from validation_branch or ip_address.        *)
(***************************************************************************)
Editing == pc = "mainloop"

Submitted == pc = "done"

\* validation is the handler that ran last: it always shows a dialog, and a
\* dialog is acknowledged before any other handler runs.
JustValidated == shown # <<>>

ValidIPTexts ==
    { <<"1","0",".","0",".","0",".","1">>,
      <<":",":","1">>,
      <<":",":","f","f","f","f",":","1",".","2",".","3",".","4">> }

Rule1Fails == SiteName_var = ""

Rule2Fails == Username_var = ""

Rule3Fails == password_var = ""

Rule4Fails == answer_redo_var = "Yes" /\ answer_password_var = ""

Rule5Fails == IP_Address1_var \notin ValidIPTexts

Rule6Fails == IP_Address2_var # <<>> /\ IP_Address2_var \notin ValidIPTexts

Rule7Fails == FolderPath_var = ""

\* The first rule of submit that fails, 0 when none does.
FirstFailingRule ==
    IF Rule1Fails THEN 1
    ELSE IF Rule2Fails THEN 2
    ELSE IF Rule3Fails THEN 3
    ELSE IF Rule4Fails THEN 4
    ELSE IF Rule5Fails THEN 5
    ELSE IF Rule6Fails THEN 6
    ELSE IF Rule7Fails THEN 7
    ELSE 0

\* The error of each rule: EmptyField("Site Name"), EmptyField("Username"),
\* EmptyField("Password"), EmptyField("Answer Password"),
\* InvalidOrEmptyIP("Core Switch 1"), InvalidIP("Core Switch 2"),
\* EmptyField("Results Folder"), as the dialogs written for them.
ErrorOf(rule) ==
    CASE rule = 1 -> SiteNameEmpty
      [] rule = 2 -> UsernameEmpty
      [] rule = 3 -> PasswordEmpty
      [] rule = 4 -> AnswerPasswordEmpty
      [] rule = 5 -> CoreSwitch1Invalid
      [] rule = 6 -> CoreSwitch2Invalid
      [] rule = 7 -> FolderEmpty

NoFieldLocked ==
    /\ \A w \in Widgets \ {"FolderPath_entry"} : widget_state[w] # "disabled"
    /\ master = "open"

AllLocked ==
    /\ \A w \in Locked : widget_state[w] = "disabled"
    /\ master = "destroyed"

(***************************************************************************)
(* The claims.                                                             *)
(***************************************************************************)

\* C1: after a submit on which some rule fails, the one error reported is
\* the error of the first rule, in the order 1..7, that fails.
C1_FirstFailingRuleReported ==
    (JustValidated /\ FirstFailingRule # 0)
        => shown = <<showerror(ErrorOf(FirstFailingRule))>>

\* C2: after a submit on which rules 1-4 pass, a coreSwitch1 that is no IP
\* literal is reported as the Core Switch 1 error, and, with a valid
\* coreSwitch1, a non-empty coreSwitch2 that is no IP literal is reported as
\* the Core Switch 2 error; the two errors differ.
C2_FieldSpecificIPError ==
    /\ CoreSwitch1Invalid # CoreSwitch2Invalid
    /\ (JustValidated /\ FirstFailingRule = 5)
           => shown = <<showerror(CoreSwitch1Invalid)>>
    /\ (JustValidated /\ FirstFailingRule = 6)
           => shown = <<showerror(CoreSwitch2Invalid)>>

\* C3: after a submit with a required field empty, one error is shown, it is
\* the EmptyField error of the first empty required field unless an IP rule
\* fails before it, the controller is Editing, no field is locked and the
\* window is open.
C3_EmptyRequiredField ==
    (JustValidated /\ (Rule1Fails \/ Rule2Fails \/ Rule3Fails \/ Rule4Fails \/ Rule7Fails))
        => /\ Len(shown) = 1
           /\ shown[1].kind = "error"
           /\ FirstFailingRule \in {1, 2, 3, 4, 7}
                  => shown[1].message = ErrorOf(FirstFailingRule)
           /\ Editing
           /\ NoFieldLocked

C3_Witness ==
    /\ shown = <<showerror(FolderEmpty)>>
    /\ IP_Address1_var \in ValidIPTexts
    /\ IP_Address2_var \in ValidIPTexts

\* C4: a submit on which every rule passes leaves the controller Submitted
\* with every field locked, the window destroyed and no handler enabled; and
\* no step from a Submitted state changes a field or the controller's state.
C4_SubmittedForever ==
    [][ /\ (validation /\ FirstFailingRule = 0)
               => (Submitted' /\ AllLocked' /\ (~ENABLED Next)')
        /\ Submitted => (form' = form /\ Submitted')
      ]_vars

C4_Witness == Submitted /\ AllLocked /\ failed > 0

\* C5: with rules 1-3 passing and answerPassword empty, a submit with
\* retryWithAnswerCreds = Yes reports EmptyField("Answer Password"), and one
\* with retryWithAnswerCreds = No and rules 5-7 passing succeeds; the Answer
\* Password error is reported only when retryWithAnswerCreds = Yes.
C5_AnswerPasswordIffRetry ==
    (JustValidated /\ ~Rule1Fails /\ ~Rule2Fails /\ ~Rule3Fails)
        => /\ (answer_redo_var = "Yes" /\ answer_password_var = "")
                  => (shown = <<showerror(AnswerPasswordEmpty)>> /\ Editing)
           /\ (answer_redo_var = "No" /\ answer_password_var = ""
                 /\ ~Rule5Fails /\ ~Rule6Fails /\ ~Rule7Fails)
                  => Submitted
           /\ shown[1].message = AnswerPasswordEmpty
                  => (answer_redo_var = "Yes" /\ answer_password_var = "")

C5_Witness ==
    Submitted /\ answer_redo_var = "No" /\ answer_password_var = ""

\* C6: after a submit with coreSwitch2 empty, the error shown is not the Core
\* Switch 2 error, an IP error is shown only for a coreSwitch1 that is no IP
\* literal, and if every other rule passes the controller is Submitted.
C6_EmptyCoreSwitch2 ==
    (JustValidated /\ IP_Address2_var = <<>>)
        => /\ shown[1].message # CoreSwitch2Invalid
           /\ shown[1].message \in {SomeIPInvalid, CoreSwitch1Invalid} => Rule5Fails
           /\ FirstFailingRule = 0 => Submitted

C6_Witness ==
    Submitted /\ IP_Address2_var = <<>> /\ IP_Address1_var = <<":",":","1">>

\* C7: a step that changes the folder chosen in the dialog or resultsFolder
\* is taken in Editing, leaves resultsFolder equal to what the dialog
\* returned (the directory picked, empty when cancelled) and changes no
\* other field.
C7_PickFolder ==
    [][ (folder_selected' # folder_selected \/ FolderPath_var' # FolderPath_var)
            => /\ Editing
               /\ FolderPath_var' = folder_selected'
               /\ UNCHANGED <<SiteName_var, Username_var, password_var,
                              answer_redo_var, answer_password_var, IP_Address1_var,
                              IP_Address2_var, JumpServer_var, Debugging_var>>
      ]_vars

C7_Witness ==
    /\ folder_selected = "/tmp/b"
    /\ FolderPath_var = "/tmp/b"
    /\ SiteName_var = "HQ"
    /\ IP_Address1_var \in ValidIPTexts
    /\ JumpServer_var = "AR31NOC"

\* C8: in every Editing state cancel can run and ends the process; once the
\* process has ended no handler runs, so it is never Submitted.
C8_CancelTerminates ==
    /\ Editing => ENABLED (quit_script /\ pc' = "exited")
    /\ pc = "exited" => (~Submitted /\ ~ENABLED Next)

C8_Witness == pc = "exited" /\ failed = MaxFailed /\ FirstFailingRule = 0

\* C9: in every Submitted state the required fields are non-empty, the
\* answer password is non-empty if retryWithAnswerCreds = Yes, coreSwitch1 is
\* an IP literal and coreSwitch2 is empty or an IP literal.
C9_SubmittedIsValid ==
    Submitted
        => /\ SiteName_var # ""
           /\ Username_var # ""
           /\ password_var # ""
           /\ FolderPath_var # ""
           /\ answer_redo_var = "Yes" => answer_password_var # ""
           /\ IP_Address1_var \in ValidIPTexts
           /\ IP_Address2_var = <<>> \/ IP_Address2_var \in ValidIPTexts

C9_Witness ==
    /\ Submitted
    /\ answer_redo_var = "Yes"
    /\ IP_Address2_var \in ValidIPTexts
    /\ failed > 0

\* C10: a submit on which some rule fails shows exactly one error dialog,
\* changes no field and leaves the controller Editing with submit enabled;
\* a submit on which every rule passes, after any failed ones, reaches
\* Submitted.
C10_Recoverable ==
    [][ /\ (validation /\ FirstFailingRule # 0)
               => /\ Len(shown') = 1
                  /\ shown'[1].kind = "error"
                  /\ form' = form
                  /\ Editing'
                  /\ NoFieldLocked'
                  /\ (ENABLED validation)'
        /\ (validation /\ FirstFailingRule = 0) => Submitted'
      ]_vars

C10_Witness == Submitted /\ failed = MaxFailed

====
